---- MODULE Spec2Model ----
(***************************************************************************)
(* Model of package wildcard (src/wildcard/matcher.go): compilation of     *)
(* SPIFFE wildcard patterns into a splitMatcher and matching of candidate  *)
(* URIs against it.                                                        *)
(*                                                                         *)
(* A Go string is a sequence of one-character strings.  A call that ends   *)
(* in a run-time panic (slice bounds out of range, explicit panic()) is an *)
(* outcome of kind "panic"; a call that returns is "matcher" or "error".   *)
(***************************************************************************)
EXTENDS Integers, Sequences, FiniteSets, TLC

\* ---------------------------------------------------------------- bounds

\* Longest text after the head of a pattern handed to Compile / MustCompile.
MaxPat == 4
\* Longest text after the head of a candidate handed to Matches.
MaxCand == 4
\* Longest text after the head of a pattern inside a CompileList argument.
MaxListPat == 2
\* Longest list handed to CompileList.
MaxList == 3

\* Characters the inputs are built from: two literal characters, the
\* separator and the wildcard character.
Alphabet == {"a", "b", "/", "*"}

\* The scheme prefix tested by PrefixCheck.
Prefix == <<"s", "p", "i", "f", "f", "e", ":", "/", "/">>

\* The offset GetSegmentsFromURI slices at (acl[9:...]).
PrefixLen == 9

defaultSeparator == "/"

DoubleStar == <<"*", "*">>
Star == <<"*">>

\* Ways an input that lacks the scheme prefix may begin: with nothing, with
\* the prefix cut short.
BadHeads == {<<>>, SubSeq(Prefix, 1, 8)}

\* Longest text after a head that is not the scheme prefix.
MaxBadTail == 1

Tails(n) == UNION {[1..k -> Alphabet] : k \in 0..n}

\* The inputs: the prefix followed by at most n characters, and the strings
\* without the prefix.
Inputs(n) ==
    {Prefix \o t : t \in Tails(n)} \cup {h \o t : h \in BadHeads, t \in Tails(MaxBadTail)}

PatternInputs == Inputs(MaxPat)
CandidateInputs == Inputs(MaxCand)
ListInputs == Inputs(MaxListPat)

RECURSIVE ListsUpTo(_)
ListsUpTo(n) ==
    IF n = 0 THEN {<<>>}
    ELSE LET shorter == ListsUpTo(n - 1)
         IN shorter \cup {Append(l, p) : l \in {x \in shorter : Len(x) = n - 1},
                                         p \in ListInputs}

\* ---------------------------------------------------------------- errors

errEmptyPattern == "errEmptyPattern"
errInvalidWildcard == "errInvalidWildcard"
errInvalidDoubleWildcard == "errInvalidDoubleWildcard"
errInvalidPrefix == "errInvalidPrefix"
errInvalidSegment == "errInvalidSegment"

\* ------------------------------------------------- package strings (Go)

\* strings.HasPrefix
HasPrefix(s, p) == Len(s) >= Len(p) /\ SubSeq(s, 1, Len(p)) = p

\* strings.Index: the 0-based index of the first occurrence of sub, or -1.
Index(s, sub) ==
    LET hits == {i \in 0..(Len(s) - Len(sub)) : SubSeq(s, i + 1, i + Len(sub)) = sub}
    IN IF hits = {} THEN -1 ELSE CHOOSE i \in hits : \A j \in hits : i <= j

\* strings.Contains
Contains(s, sub) == Index(s, sub) >= 0

\* strings.Split with a one-character separator: one more piece than there
\* are separators; the empty string gives one empty piece.
RECURSIVE Split(_, _)
Split(s, sep) ==
    LET i == Index(s, <<sep>>)
    IN IF i = -1 THEN <<s>>
       ELSE <<SubSeq(s, 1, i)>> \o Split(SubSeq(s, i + 2, Len(s)), sep)

\* Whether the slice expression s[lo:hi] is within bounds (else Go panics).
SliceInBounds(s, lo, hi) == 0 <= lo /\ lo <= hi /\ hi <= Len(s)

\* s[lo:hi], 0-based, for a slice within bounds.
Slice(s, lo, hi) == SubSeq(s, lo + 1, hi)

\* -------------------------------------------------------------- outcomes

MatcherOf(segs) == [kind |-> "matcher", err |-> "nil", segments |-> segs]
ErrorOf(e) == [kind |-> "error", err |-> e, segments |-> <<>>]
PanicOf(msg) == [kind |-> "panic", err |-> msg, segments |-> <<>>]
NoOutcome == [kind |-> "none", err |-> "nil", segments |-> <<>>]

\* ------------------------------------------------------------ the package

PrefixCheck(pattern) == HasPrefix(pattern, Prefix)

\* InnerDoubleStar with its second comparison turned around.
InnerDoubleStarFlipped(pattern) ==
    LET firstinstance == Index(pattern, DoubleStar)
    IN firstinstance > -1 /\ firstinstance > Len(pattern) - 2

InnerDoubleStar(pattern) ==
    LET firstinstance == Index(pattern, DoubleStar)
    IN firstinstance > -1 /\ firstinstance < Len(pattern) - 2

\* GetSegmentsFromURI without its trailing-slash branch.
GetSegmentsFromURIKeepSlash(acl, separator) ==
    IF SliceInBounds(acl, PrefixLen, Len(acl))
    THEN [panic |-> FALSE, segments |-> Split(Slice(acl, PrefixLen, Len(acl)), separator)]
    ELSE [panic |-> TRUE, segments |-> <<>>]

\* The segments of acl, or a panic where an index or slice is out of bounds.
GetSegmentsFromURI(acl, separator) ==
    IF Len(acl) = 0
    THEN [panic |-> TRUE, segments |-> <<>>]
    ELSE IF acl[Len(acl)] = "/"
         THEN IF SliceInBounds(acl, PrefixLen, Len(acl) - 1)
              THEN [panic |-> FALSE,
                    segments |-> Split(Slice(acl, PrefixLen, Len(acl) - 1), separator)]
              ELSE [panic |-> TRUE, segments |-> <<>>]
         ELSE IF SliceInBounds(acl, PrefixLen, Len(acl))
              THEN [panic |-> FALSE,
                    segments |-> Split(Slice(acl, PrefixLen, Len(acl)), separator)]
              ELSE [panic |-> TRUE, segments |-> <<>>]

\* What one turn of CompileWithSeparator's loop returns for a segment
\* ("nil": the loop goes on).
PatternSegmentError(seg) ==
    IF Len(seg) > 2 /\ Contains(seg, DoubleStar) THEN errInvalidDoubleWildcard
    ELSE IF Len(seg) > 1 /\ seg # DoubleStar /\ Contains(seg, Star) THEN errInvalidWildcard
    ELSE IF Len(seg) = 0 THEN errInvalidSegment
    ELSE "nil"

\* What one turn of ParseURIWithSeparator's loop returns for a segment.
URISegmentError(seg) == IF Len(seg) = 0 THEN errInvalidSegment ELSE "nil"

\* The lowest index at which a loop over the segments returns (0: none).
FirstIndex(bad) == IF bad = {} THEN 0 ELSE CHOOSE i \in bad : \A j \in bad : i <= j

\* The loop of CompileWithSeparator: the error of the first turn that
\* returns, "nil" where none does.
CompileLoop(segments) ==
    LET i == FirstIndex({j \in 1..Len(segments) : PatternSegmentError(segments[j]) # "nil"})
    IN IF i = 0 THEN "nil" ELSE PatternSegmentError(segments[i])

\* The loop of ParseURIWithSeparator, likewise.
ParseLoop(segments) ==
    LET i == FirstIndex({j \in 1..Len(segments) : URISegmentError(segments[j]) # "nil"})
    IN IF i = 0 THEN "nil" ELSE URISegmentError(segments[i])

CompileWithSeparator(pattern, separator) ==
    IF pattern = <<>> THEN ErrorOf(errEmptyPattern)
    ELSE IF ~PrefixCheck(pattern) THEN ErrorOf(errInvalidPrefix)
    ELSE IF InnerDoubleStar(pattern) THEN ErrorOf(errInvalidDoubleWildcard)
    ELSE LET got == GetSegmentsFromURI(pattern, defaultSeparator)
         IN IF got.panic THEN PanicOf("slice bounds out of range")
            ELSE LET e == CompileLoop(got.segments)
                 IN IF e # "nil" THEN ErrorOf(e) ELSE MatcherOf(got.segments)

Compile(pattern) == CompileWithSeparator(pattern, defaultSeparator)

ParseURIWithSeparator(uri, separator) ==
    IF uri = <<>> THEN ErrorOf(errEmptyPattern)
    ELSE IF ~PrefixCheck(uri) THEN ErrorOf(errInvalidPrefix)
    ELSE LET got == GetSegmentsFromURI(uri, defaultSeparator)
         IN IF got.panic THEN PanicOf("slice bounds out of range")
            ELSE LET e == ParseLoop(got.segments)
                 IN IF e # "nil" THEN ErrorOf(e) ELSE MatcherOf(got.segments)

\* SuffixCheck, which MustCompile calls after its two tests, has an empty
\* body and no result.
MustCompile(pattern) ==
    IF ~PrefixCheck(pattern) THEN PanicOf("Wrong prefix")
    ELSE IF InnerDoubleStar(pattern)
         THEN PanicOf("Double star which is not at the end of pattern")
         ELSE LET r == CompileWithSeparator(pattern, defaultSeparator)
              IN IF r.kind = "error" THEN PanicOf(r.err) ELSE r

\* The loop of CompileList from index i on, ms the matchers appended so far.
RECURSIVE CompileListFrom(_, _, _)
CompileListFrom(patterns, i, ms) ==
    IF i > Len(patterns) THEN [kind |-> "list", err |-> "nil", ms |-> ms]
    ELSE LET r == Compile(patterns[i])
         IN IF r.kind = "panic" THEN [kind |-> "panic", err |-> r.err, ms |-> <<>>]
            ELSE IF r.kind = "error" THEN [kind |-> "error", err |-> r.err, ms |-> <<>>]
            ELSE CompileListFrom(patterns, i + 1, Append(ms, r))

CompileList(patterns) == CompileListFrom(patterns, 1, <<>>)

\* The for loop of Matches from index i (1-based) on: "true" or "false"
\* where a turn returns, "end" where the loop runs out.
RECURSIVE MatchLoop(_, _, _, _)
MatchLoop(aclSegments, uriSegments, i, minlen) ==
    IF i > minlen THEN "end"
    ELSE IF aclSegments[i] = Star \/ aclSegments[i] = uriSegments[i]
         THEN MatchLoop(aclSegments, uriSegments, i + 1, minlen)
    ELSE IF aclSegments[i] = DoubleStar THEN "true"
    ELSE "false"

\* Matches without the comparison of the two lengths after its loop.
MatchesNoLengthCheck(aclSegments, input) ==
    LET uri == ParseURIWithSeparator(input, defaultSeparator)
    IN IF uri.kind = "panic" THEN "panic"
       ELSE IF uri.kind = "error" THEN "false"
       ELSE LET uriSegments == uri.segments
                minlen == IF Len(aclSegments) < Len(uriSegments)
                          THEN Len(aclSegments) ELSE Len(uriSegments)
                loop == MatchLoop(aclSegments, uriSegments, 1, minlen)
            IN IF loop # "end" THEN loop ELSE "true"

\* splitMatcher.Matches: "true", "false", or "panic".
Matches(aclSegments, input) ==
    LET uri == ParseURIWithSeparator(input, defaultSeparator)
    IN IF uri.kind = "panic" THEN "panic"
       ELSE IF uri.kind = "error" THEN "false"
       ELSE LET uriSegments == uri.segments
                minlen == IF Len(aclSegments) < Len(uriSegments)
                          THEN Len(aclSegments) ELSE Len(uriSegments)
                loop == MatchLoop(aclSegments, uriSegments, 1, minlen)
            IN IF loop # "end" THEN loop
               ELSE IF Len(uriSegments) = Len(aclSegments) THEN "true"
               ELSE IF Len(aclSegments) > minlen /\ aclSegments[minlen + 1] = DoubleStar
                    THEN "true"
               ELSE "false"

\* splitMatcher.GetSegments: the slice header of acl.segments itself, which
\* shares the matcher's backing array (no copy is made).
GetSegments(acl) == [held |-> TRUE, base |-> "acl.segments", len |-> Len(acl.segments)]

NoView == [held |-> FALSE, base |-> "nil", len |-> 0]

\* ------------------------------------------------------------------ state

VARIABLES
    op,           \* the last call made
    pattern,      \* the argument of the last Compile / MustCompile
    outcome,      \* its outcome; a matcher's segments are its backing array
    patterns,     \* the argument of the last CompileList
    listOutcome,  \* its outcome
    candidate,    \* the argument of the last Matches
    result,       \* its result
    view          \* the slice the last GetSegments returned

vars == <<op, pattern, outcome, patterns, listOutcome, candidate, result, view>>

NoList == [kind |-> "none", err |-> "nil", ms |-> <<>>]

Init ==
    /\ op = "none"
    /\ pattern = <<>>
    /\ outcome = NoOutcome
    /\ patterns = <<>>
    /\ listOutcome = NoList
    /\ candidate = <<>>
    /\ result = "none"
    /\ view = NoView

DoCompile ==
    /\ op = "none"
    /\ \E p \in PatternInputs :
        /\ op' = "Compile"
        /\ pattern' = p
        /\ outcome' = Compile(p)
    /\ candidate' = <<>>
    /\ result' = "none"
    /\ view' = NoView
    /\ UNCHANGED <<patterns, listOutcome>>

DoMustCompile ==
    /\ op = "none"
    /\ \E p \in PatternInputs :
        /\ op' = "MustCompile"
        /\ pattern' = p
        /\ outcome' = MustCompile(p)
    /\ candidate' = <<>>
    /\ result' = "none"
    /\ view' = NoView
    /\ UNCHANGED <<patterns, listOutcome>>

DoCompileList ==
    /\ op = "none"
    /\ \E ps \in ListsUpTo(MaxList) :
        /\ op' = "CompileList"
        /\ patterns' = ps
        /\ listOutcome' = CompileList(ps)
    /\ UNCHANGED <<pattern, outcome, candidate, result, view>>

DoMatches ==
    /\ outcome.kind = "matcher"
    /\ result = "none"
    /\ \E c \in CandidateInputs :
        /\ op' = "Matches"
        /\ candidate' = c
        /\ result' = Matches(outcome.segments, c)
    /\ UNCHANGED <<pattern, outcome, patterns, listOutcome, view>>

DoGetSegments ==
    /\ outcome.kind = "matcher"
    /\ result = "none"
    /\ ~view.held
    /\ op' = "GetSegments"
    /\ view' = GetSegments(outcome)
    /\ UNCHANGED <<pattern, outcome, patterns, listOutcome, candidate, result>>

\* A caller assigns to an element of the slice GetSegments returned.
WriteThroughView ==
    /\ view.held
    /\ result = "none"
    /\ \E i \in 1..view.len, seg \in {<<"a">>, <<"b">>} :
        /\ op' = "Write"
        /\ outcome' = IF view.base = "acl.segments"
                      THEN [outcome EXCEPT !.segments[i] = seg]
                      ELSE outcome
    /\ UNCHANGED <<pattern, patterns, listOutcome, candidate, result, view>>

\* The caller drops what the last calls gave it and starts over.
Release ==
    /\ op # "none"
    /\ op' = "none"
    /\ pattern' = <<>>
    /\ outcome' = NoOutcome
    /\ patterns' = <<>>
    /\ listOutcome' = NoList
    /\ candidate' = <<>>
    /\ result' = "none"
    /\ view' = NoView

Next ==
    \/ DoCompile
    \/ DoMustCompile
    \/ DoMatches
    \/ DoGetSegments
    \/ Release

Spec == Init /\ [][Next]_vars

NextList ==
    \/ DoCompileList
    \/ Release

SpecList == Init /\ [][NextList]_vars

NextCaller ==
    \/ DoCompile
    \/ DoMatches
    \/ DoGetSegments
    \/ WriteThroughView
    \/ Release

SpecCaller == Init /\ [][NextCaller]_vars

\* ------------------------------------------- the specification's notions

\* The text of an identity URI after the scheme prefix.
Body(c) == SubSeq(c, Len(Prefix) + 1, Len(c))

\* The body with one trailing separator, if there is one, taken off.
Core(c) ==
    LET b == Body(c)
    IN IF b # <<>> /\ b[Len(b)] = "/" THEN SubSeq(b, 1, Len(b) - 1) ELSE b

\* The position of the k-th separator of t; 0 and Len(t) + 1 stand for the
\* two ends.
SepPos(t, k) ==
    LET seps == {i \in 1..Len(t) : t[i] = "/"}
    IN IF k = 0 THEN 0
       ELSE IF k = Cardinality(seps) + 1 THEN Len(t) + 1
       ELSE CHOOSE i \in seps : Cardinality({j \in seps : j <= i}) = k

\* The separator-delimited pieces of a text, in order.
Pieces(t) ==
    LET n == Cardinality({i \in 1..Len(t) : t[i] = "/"}) + 1
    IN [k \in 1..n |-> SubSeq(t, SepPos(t, k - 1) + 1, SepPos(t, k) - 1)]

\* A well-formed identity URI: the scheme prefix, then one or more non-empty
\* segments with one separator between them, then at most one separator.
WellFormedURI(c) ==
    /\ Len(c) >= Len(Prefix)
    /\ \A i \in 1..Len(Prefix) : c[i] = Prefix[i]
    /\ \A k \in 1..Len(Pieces(Core(c))) : Pieces(Core(c))[k] # <<>>

\* The segments of a well-formed identity URI.
URISegments(c) == Pieces(Core(c))

HasStar(seg) == \E j \in 1..Len(seg) : seg[j] = "*"

\* The result the compile steps, taken in their stated order, call for:
\* "nil" where every step passes.
ExpectedError(p) ==
    IF p = <<>> THEN errEmptyPattern
    ELSE IF ~(Len(p) >= Len(Prefix) /\ \A i \in 1..Len(Prefix) : p[i] = Prefix[i])
         THEN errInvalidPrefix
    ELSE IF \E i \in 1..(Len(p) - 2) : p[i] = "*" /\ p[i + 1] = "*"
         THEN errInvalidDoubleWildcard
    ELSE LET segs == Pieces(Core(p))
             Offends(g) == \/ (Len(g) > 2 /\ \E j \in 1..(Len(g) - 1) : g[j] = "*" /\ g[j + 1] = "*")
                           \/ (Len(g) > 1 /\ g # DoubleStar /\ HasStar(g))
                           \/ g = <<>>
             bad == {k \in 1..Len(segs) : Offends(segs[k])}
         IN IF bad = {} THEN "nil"
            ELSE LET g == segs[CHOOSE k \in bad : \A l \in bad : k <= l]
                 IN IF Len(g) > 2 /\ \E j \in 1..(Len(g) - 1) : g[j] = "*" /\ g[j + 1] = "*"
                    THEN errInvalidDoubleWildcard
                    ELSE IF g = <<>> THEN errInvalidSegment
                    ELSE errInvalidWildcard

\* Pattern segments s match candidate segments c index by index up to k.
SegmentsAgree(s, c, k) == \A i \in 1..k : s[i] = Star \/ s[i] = c[i]

\* ----------------------------------------------------------------- claims

\* C1: Matches returns a boolean for every candidate and never aborts, and
\* returns false whenever the candidate is not a well-formed identity URI.
C1_MatchesNeverAborts ==
    op = "Matches" =>
        /\ result \in {"true", "false"}
        /\ (~WellFormedURI(candidate) => result = "false")

\* C1, away from the failing input: for every candidate but the bare scheme
\* prefix, Matches returns a boolean, and false for a malformed candidate.
C1_ExceptBarePrefix ==
    (op = "Matches" /\ candidate # Prefix) =>
        /\ result \in {"true", "false"}
        /\ (~WellFormedURI(candidate) => result = "false")

\* C2: for a pattern s_0..s_{k-1} followed by a final "**" and a well-formed
\* candidate c_0..c_{m-1}, Matches is true exactly when m >= k and every
\* s_i (i < k) is "*" or equals c_i, whatever c_k..c_{m-1} are.
C2_TrailingDoubleWildcard ==
    (/\ op = "Matches"
     /\ outcome.segments[Len(outcome.segments)] = DoubleStar
     /\ WellFormedURI(candidate)) =>
        LET s == outcome.segments
            k == Len(s) - 1
            c == URISegments(candidate)
        IN (result = "true") <=> (Len(c) >= k /\ SegmentsAgree(s, c, k))

\* C2, away from the failing inputs: the same equivalence for candidates
\* none of whose segments is the text "**".
C2_ExceptDoubleStarCandidate ==
    (/\ op = "Matches"
     /\ outcome.segments[Len(outcome.segments)] = DoubleStar
     /\ WellFormedURI(candidate)
     /\ \A i \in 1..Len(URISegments(candidate)) : URISegments(candidate)[i] # DoubleStar) =>
        LET s == outcome.segments
            k == Len(s) - 1
            c == URISegments(candidate)
        IN (result = "true") <=> (Len(c) >= k /\ SegmentsAgree(s, c, k))

\* C3: Compile returns its outcome as a value for every pattern and never
\* aborts, and the outcome is that of the first failing step in the stated
\* order, or a Matcher where no step fails.
C3_CompileOutcome ==
    op = "Compile" =>
        /\ outcome.kind \in {"matcher", "error"}
        /\ outcome.err = ExpectedError(pattern)
        /\ (outcome.kind = "matcher" <=> ExpectedError(pattern) = "nil")

\* C3, away from the failing input: the same for every pattern but the bare
\* scheme prefix.
C3_ExceptBarePrefix ==
    (op = "Compile" /\ pattern # Prefix) =>
        /\ outcome.kind \in {"matcher", "error"}
        /\ outcome.err = ExpectedError(pattern)
        /\ (outcome.kind = "matcher" <=> ExpectedError(pattern) = "nil")

\* C4: every Matcher Compile returns has at least one segment, no empty
\* segment, "*" only in a segment that is exactly "*" or "**", and "**"
\* only at the last index.
C4_MatcherInvariants ==
    outcome.kind = "matcher" =>
        LET s == outcome.segments
        IN /\ Len(s) >= 1
           /\ \A i \in 1..Len(s) :
                /\ s[i] # <<>>
                /\ (HasStar(s[i]) => s[i] \in {Star, DoubleStar})
                /\ (s[i] = DoubleStar => i = Len(s))

C4_Witness ==
    /\ op = "Compile"
    /\ outcome.kind = "matcher"
    /\ outcome.segments = <<Star, DoubleStar>>

\* C5: for a compiled pattern with no "**" segment and k segments, Matches
\* is true exactly when the candidate is a well-formed identity URI with
\* exactly k segments and at every index the pattern segment is "*" or
\* equals the candidate segment.
C5_NoDoubleWildcard ==
    (/\ op = "Matches"
     /\ \A i \in 1..Len(outcome.segments) : outcome.segments[i] # DoubleStar) =>
        LET s == outcome.segments
        IN (result = "true") <=>
              /\ WellFormedURI(candidate)
              /\ Len(URISegments(candidate)) = Len(s)
              /\ SegmentsAgree(s, URISegments(candidate), Len(s))

C5_Witness ==
    /\ op = "Matches"
    /\ outcome.segments = <<<<"a">>, Star>>
    /\ candidate = Prefix \o <<"a", "/", "b", "b">>
    /\ result = "true"

\* C6: for a well-formed candidate c that does not end with the separator,
\* Matches(c) equals Matches(c + "/"); c + "//" is not well-formed and does
\* not match.
C6_TrailingSeparatorCandidate ==
    (/\ op = "Matches"
     /\ WellFormedURI(candidate)
     /\ candidate[Len(candidate)] # "/") =>
        /\ result = Matches(outcome.segments, Append(candidate, "/"))
        /\ ~WellFormedURI(candidate \o <<"/", "/">>)
        /\ Matches(outcome.segments, candidate \o <<"/", "/">>) = "false"

C6_Witness ==
    /\ op = "Matches"
    /\ outcome.segments = <<<<"a">>, DoubleStar>>
    /\ candidate = Prefix \o <<"a", "/", "b">>
    /\ result = "true"
    /\ Matches(outcome.segments, Append(candidate, "/")) = "true"

\* C7: CompileList returns, when every pattern compiles, the list of the
\* Matchers Compile gives, in order; otherwise no list and the error of the
\* lowest-indexed invalid pattern.
C7_AllOrNothing ==
    op = "CompileList" =>
        LET each == [i \in 1..Len(patterns) |-> Compile(patterns[i])]
            bad == {i \in 1..Len(patterns) : each[i].kind # "matcher"}
        IN IF bad = {}
           THEN /\ listOutcome.kind = "list"
                /\ Len(listOutcome.ms) = Len(patterns)
                /\ \A i \in 1..Len(patterns) : listOutcome.ms[i].segments = each[i].segments
           ELSE LET first == CHOOSE i \in bad : \A j \in bad : i <= j
                IN /\ listOutcome.kind = "error"
                   /\ listOutcome.ms = <<>>
                   /\ each[first].kind = "error"
                   /\ listOutcome.err = each[first].err

\* C7, away from the failing inputs: the same for lists whose first pattern
\* that is no Matcher is not the bare scheme prefix.
C7_ExceptBarePrefix ==
    (/\ op = "CompileList"
     /\ \A i \in 1..Len(patterns) :
            patterns[i] = Prefix => \E j \in 1..(i - 1) : Compile(patterns[j]).kind = "error") =>
        LET each == [i \in 1..Len(patterns) |-> Compile(patterns[i])]
            bad == {i \in 1..Len(patterns) : each[i].kind # "matcher"}
        IN IF bad = {}
           THEN /\ listOutcome.kind = "list"
                /\ Len(listOutcome.ms) = Len(patterns)
                /\ \A i \in 1..Len(patterns) : listOutcome.ms[i].segments = each[i].segments
           ELSE LET first == CHOOSE i \in bad : \A j \in bad : i <= j
                IN /\ listOutcome.kind = "error"
                   /\ listOutcome.ms = <<>>
                   /\ each[first].kind = "error"
                   /\ listOutcome.err = each[first].err

\* C8: MustCompile panics exactly when Compile would return an error, and
\* otherwise returns a Matcher with the segments Compile returns.
C8_MustCompileAsCompile ==
    op = "MustCompile" =>
        /\ (outcome.kind = "panic" <=> Compile(pattern).kind = "error")
        /\ (outcome.kind # "panic" =>
                /\ outcome.kind = "matcher"
                /\ Compile(pattern).kind = "matcher"
                /\ outcome.segments = Compile(pattern).segments)

\* C8, away from the failing input: the same for every pattern but the bare
\* scheme prefix.
C8_ExceptBarePrefix ==
    (op = "MustCompile" /\ pattern # Prefix) =>
        /\ (outcome.kind = "panic" <=> Compile(pattern).kind = "error")
        /\ (outcome.kind # "panic" =>
                /\ outcome.kind = "matcher"
                /\ Compile(pattern).kind = "matcher"
                /\ outcome.segments = Compile(pattern).segments)

\* C9: a compiled Matcher is immutable: whatever callers do with Matches,
\* GetSegments and the view GetSegments gives, its segment sequence is the
\* one produced at compile time.
C9_Immutable ==
    outcome.kind = "matcher" => outcome.segments = Compile(pattern).segments

\* C9, the part Matches and GetSegments alone decide: neither call changes
\* the Matcher's segments.
C9_CallsLeaveSegments ==
    [][op' \in {"Matches", "GetSegments"} => outcome' = outcome]_vars

\* C10: for every pattern p that compiles and does not end with the
\* separator, p + "/" compiles too, to the same segment sequence.
C10_TrailingSeparatorPattern ==
    (/\ op = "Compile"
     /\ outcome.kind = "matcher"
     /\ pattern[Len(pattern)] # "/") =>
        /\ Compile(Append(pattern, "/")).kind = "matcher"
        /\ Compile(Append(pattern, "/")).segments = outcome.segments

\* C10, away from the failing inputs: the same for patterns whose last
\* segment is not "**".
C10_ExceptDoubleStarLast ==
    (/\ op = "Compile"
     /\ outcome.kind = "matcher"
     /\ pattern[Len(pattern)] # "/"
     /\ outcome.segments[Len(outcome.segments)] # DoubleStar) =>
        /\ Compile(Append(pattern, "/")).kind = "matcher"
        /\ Compile(Append(pattern, "/")).segments = outcome.segments

====
